---- MODULE Spec2Model ----
(***************************************************************************)
(* Model of the agentic data pipeline: the RefinerAgent                    *)
(* (agents/refiner/refiner_agent.py) and the PipelineOrchestrator          *)
(* (orchestrator/orchestrator.py).                                         *)
(*                                                                         *)
(* A DataFrame is a record [names, kinds, rows]: the column labels in      *)
(* order, the dtype class of every column ("num" for int64/float64, "cat"  *)
(* for object) and the rows in index order.  A cell is an integer; NA is   *)
(* the missing value (NaN/None).  A categorical cell is the index of a     *)
(* label in Vocab.  Optional values are <<>> (None) or <<x>>.              *)
(***************************************************************************)
EXTENDS Integers, Sequences, FiniteSets, TLC

VARIABLES
    transformation_log, \* RefinerAgent.transformation_log: index into heap
    heap,               \* the list objects created for transformation_log
    reports,            \* what each RefinerAgent.run returned, oldest first
    calls,              \* number of calls made on the agent so far
    lastCall            \* the most recent call on the agent: its name, for run
                        \* the operations in force, whether it raised, the
                        \* frame it returned and the entries it appended

VARIABLES
    given,              \* the frame and the arguments the caller passed to
                        \* the most recent call it made on a frame it holds
    copy_on_write       \* pandas' mode.copy_on_write of the installation
                        \* (off by default before pandas 3.0, always on since)

refinerVars == <<transformation_log, heap, reports, calls, lastCall, given,
                 copy_on_write>>

VARIABLES
    config,             \* PipelineOrchestrator.config['pipeline']
    pipeline_metrics,   \* PipelineOrchestrator.pipeline_metrics
    pc,                 \* where run_pipeline stands: "idle" between calls
    args,               \* input_data and output_path of the current call
    df_local,           \* the local df of run_pipeline, None before the load
    runs,               \* number of run_pipeline calls started so far
    result,             \* what the latest finished call returned, or None
    store,              \* pipeline_metrics_<dataset_name>.json, or None
    handed,             \* the frame the insight stage of this call received
    saved,              \* the frame the save stage of this call wrote
    runStart            \* len(pipeline_metrics['stages']) when the call began

orchVars == <<config, pipeline_metrics, pc, args, df_local, runs, result, store,
              handed, saved, runStart>>

vars == <<refinerVars, orchVars>>

(***************************************************************************)
(* Bounds                                                                  *)
(***************************************************************************)
MaxCalls == 2   \* calls made on one RefinerAgent
MaxOps == 2     \* length of an operations list
MaxRuns == 2    \* run_pipeline calls on one PipelineOrchestrator
MaxRows == 3    \* rows of a frame a caller passes through the operations
MaxChain == 2   \* operations a caller applies one after another
MaxCategoryRows == 5   \* rows of a frame of category labels

(***************************************************************************)
(* Values                                                                  *)
(***************************************************************************)
NA == -9999   \* the missing value, outside the range of the data

None == <<>>
Some(x) == <<x>>
IsSome(o) == Len(o) = 1
Get(o) == o[1]

Range(s) == {s[i] : i \in 1..Len(s)}

RECURSIVE SeqSum(_)
SeqSum(s) == IF s = <<>> THEN 0 ELSE s[1] + SeqSum(Tail(s))

RECURSIVE Filter(_, _)
\* the elements of s whose position is in keep, in order
Filter(s, keep) ==
    IF s = <<>> THEN <<>>
    ELSE LET n == Len(s)
             front == Filter(SubSeq(s, 1, n - 1), keep)
         IN IF n \in keep THEN Append(front, s[n]) ELSE front

RECURSIVE SortedSeq(_)
\* the integers of a bag given as a sequence, ascending
SortedSeq(s) ==
    IF s = <<>> THEN <<>>
    ELSE LET i == CHOOSE k \in 1..Len(s) : \A l \in 1..Len(s) : s[k] <= s[l]
         IN <<s[i]>> \o SortedSeq(Filter(s, (1..Len(s)) \ {i}))

(***************************************************************************)
(* DataFrames                                                              *)
(***************************************************************************)
NRows(df) == Len(df.rows)
NCols(df) == Len(df.names)

\* df[col] by position: the cells of column j in row order
Column(df, j) == [i \in 1..NRows(df) |-> df.rows[i][j]]

\* the non-missing cells of column j in row order
Present(df, j) ==
    Filter(Column(df, j), {i \in 1..NRows(df) : df.rows[i][j] # NA})

\* df[col].isnull().sum()
NullCount(df, j) == Cardinality({i \in 1..NRows(df) : df.rows[i][j] = NA})

\* df.isnull().sum().sum()
MissingCells(df) == SeqSum([j \in 1..NCols(df) |-> NullCount(df, j)])

\* a label that names more than one column
HasDuplicateNames(df) ==
    \E i, j \in 1..NCols(df) : i # j /\ df.names[i] = df.names[j]

\* df.select_dtypes(include=['number']).columns, as positions
NumericCols(df) == {j \in 1..NCols(df) : df.kinds[j] = "num"}

\* the columns outside keep blanked instead of dropped
KeepColsBlanking(df, keep) ==
    [df EXCEPT !.rows =
        [i \in 1..NRows(df) |->
            [j \in 1..NCols(df) |->
                IF j \in keep THEN df.rows[i][j] ELSE NA]]]

\* the frame restricted to the columns at the positions in keep
KeepCols(df, keep) ==
    [names |-> Filter(df.names, keep),
     kinds |-> Filter(df.kinds, keep),
     rows  |-> [i \in 1..NRows(df) |-> Filter(df.rows[i], keep)]]

\* the selected rows appended to the frame instead of replacing its rows
KeepRowsAppending(df, keep) ==
    [df EXCEPT !.rows = df.rows \o Filter(df.rows, keep)]

\* the frame restricted to the rows at the positions in keep
KeepRows(df, keep) == [df EXCEPT !.rows = Filter(df.rows, keep)]

\* Series.median(): the middle of the sorted non-missing values
Median(s) ==
    LET t == SortedSeq(s)
        n == Len(t)
    IN IF n % 2 = 1 THEN t[(n + 1) \div 2]
       ELSE (t[n \div 2] + t[n \div 2 + 1]) \div 2

RECURSIVE SortedOf(_)
\* the integers of a set, ascending
SortedOf(S) ==
    IF S = {} THEN <<>>
    ELSE LET m == CHOOSE x \in S : \A y \in S : x <= y
         IN <<m>> \o SortedOf(S \ {m})

\* Series.mode(): the most frequent non-missing values, ascending
Mode(s) ==
    LET count(v) == Cardinality({i \in 1..Len(s) : s[i] = v})
    IN SortedOf({v \in Range(s) : \A w \in Range(s) : count(w) <= count(v)})

(***************************************************************************)
(* Column labels and category labels                                       *)
(***************************************************************************)
\* DataFrame.clean_names() on one label (pyjanitor lower-cases the label)
CleanName(n) ==
    CASE n = "City"  -> "city"
      [] n = "Age"   -> "age"
      [] n = "Score" -> "score"
      [] OTHER       -> n

\* the category labels, in the order Python compares the strings
Vocab ==
    << <<"N">>,
       <<"N", "o", "r", "t", "h">>,
       <<"S", "o", "u", "t", "h">>,
       <<"a", "b", "c", "d">>,
       <<"a", "b", "c", "d", "e">>,
       <<"b", "c", "d", "e">>,
       <<"n", "o", "r", "t", "h">> >>

RECURSIVE LCS(_, _)
\* length of the longest common subsequence of two strings
LCS(s, t) ==
    IF s = <<>> \/ t = <<>> THEN 0
    ELSE IF s[1] = t[1] THEN 1 + LCS(Tail(s), Tail(t))
    ELSE LET a == LCS(Tail(s), t)
             b == LCS(s, Tail(t))
         IN IF a >= b THEN a ELSE b

\* rapidfuzz fuzz.ratio, the normalized Indel similarity, as the fraction
\* num/den of 100: ratio(s, t) = 100 * 2*LCS(s, t) / (len(s) + len(t))
RatioNum(s, t) == IF Len(s) + Len(t) = 0 THEN 100 ELSE 200 * LCS(s, t)
RatioDen(s, t) == IF Len(s) + Len(t) = 0 THEN 1 ELSE Len(s) + Len(t)

\* fuzz.ratio of two category values, as <<num, den>>; process.extract is
\* taken with no default processor (rapidfuzz 3 and later), so the values
\* are compared as they are written
Ratio ==
    [v \in 1..Len(Vocab), w \in 1..Len(Vocab) |->
        <<RatioNum(Vocab[v], Vocab[w]), RatioDen(Vocab[v], Vocab[w])>>]

\* match[1] >= similarity_threshold
ScoreAtLeast(v, w, threshold) == Ratio[v, w][1] >= threshold * Ratio[v, w][2]

\* score(v, a) > score(w, a)
ScoreGreater(v, w, a) ==
    Ratio[v, a][1] * Ratio[w, a][2] > Ratio[w, a][1] * Ratio[v, a][2]

(***************************************************************************)
(* RefinerAgent operations.  Each takes the frame and yields               *)
(* [raised, df, log]: whether the call raised, the frame it returned and   *)
(* the entries it appended to transformation_log.                          *)
(***************************************************************************)
Returned(df, log) == [raised |-> FALSE, df |-> df, log |-> log]
Raised(df) == [raised |-> TRUE, df |-> df, log |-> <<>>]

\* clean_column_names without the append to transformation_log
clean_column_names_unlogged(df) ==
    Returned([df EXCEPT !.names =
                 [j \in 1..NCols(df) |-> CleanName(df.names[j])]], <<>>)

clean_column_names(df) ==
    LET df_cleaned == [df EXCEPT !.names =
                          [j \in 1..NCols(df) |-> CleanName(df.names[j])]]
    IN Returned(df_cleaned,
                <<[operation |-> "clean_column_names",
                   columns_before |-> df.names,
                   columns_after |-> df_cleaned.names]>>)

\* the value fillna() writes into the missing cells of column j
FillValue(df, j) ==
    IF df.kinds[j] = "num" THEN Median(Present(df, j))
    ELSE Mode(Present(df, j))[1]

\* the frame with the missing cells of the columns in cols filled
Imputed(df, cols) ==
    [df EXCEPT !.rows =
        [i \in 1..NRows(df) |->
            [j \in 1..NCols(df) |->
                IF j \in cols /\ df.rows[i][j] = NA
                THEN FillValue(df, j) ELSE df.rows[i][j]]]]

\* dropna(how='all'): only the rows without any value are dropped
DropStrategyAllMissing(df) ==
    LET df_clean == KeepRows(df, {i \in 1..NRows(df) :
                                     \E j \in 1..NCols(df) : df.rows[i][j] # NA})
    IN Returned(df_clean,
                <<[operation |-> "handle_missing_values",
                   strategy |-> "drop",
                   rows_dropped |-> NRows(df) - NRows(df_clean)]>>)

\* strategy == 'drop': dropna()
DropStrategy(df) ==
    LET df_clean == KeepRows(df, {i \in 1..NRows(df) :
                                     \A j \in 1..NCols(df) : df.rows[i][j] # NA})
    IN Returned(df_clean,
                <<[operation |-> "handle_missing_values",
                   strategy |-> "drop",
                   rows_dropped |-> NRows(df) - NRows(df_clean)]>>)

\* strategy == 'simple' with the default median / most_frequent imputers;
\* SimpleImputer.fit_transform leaves out a column without any observed
\* value, and the assignment of the narrower array raises
SimpleStrategy(df) ==
    IF \E j \in 1..NCols(df) : Present(df, j) = <<>> THEN Raised(df)
    ELSE Returned(Imputed(df, 1..NCols(df)),
                  <<[operation |-> "handle_missing_values",
                     strategy |-> "simple",
                     numeric_strategy |-> "median",
                     categorical_strategy |-> "most_frequent"]>>)

\* the value KNNImputer(n_neighbors=5) writes into the missing cell of row i
\* in column j, the frame having at most n_neighbors rows: the mean (rounded
\* down) of the column over the rows that share an observed numeric cell
\* with row i, over all the rows that have the cell when there is none
KnnValue(df, cols, i, j) ==
    LET donors == {k \in 1..NRows(df) : df.rows[k][j] # NA}
        near == {k \in donors : \E c \in cols :
                    df.rows[i][c] # NA /\ df.rows[k][c] # NA}
        pool == IF near = {} THEN donors ELSE near
    IN SeqSum([k \in 1..NRows(df) |->
                  IF k \in pool THEN df.rows[k][j] ELSE 0])
          \div Cardinality(pool)

\* the knn branch without the append to transformation_log
KnnStrategyUnlogged(df) ==
    IF \E j \in 1..NCols(df) : Present(df, j) = <<>> THEN Raised(df)
    ELSE Returned(Imputed(df, 1..NCols(df)), <<>>)

\* strategy == 'knn': KNNImputer on the numeric columns, SimpleImputer
\* (most_frequent) on the others; both leave out a column without any
\* observed value, and the assignment of the narrower array raises
KnnStrategy(df) ==
    IF \E j \in 1..NCols(df) : Present(df, j) = <<>> THEN Raised(df)
    ELSE Returned([df EXCEPT !.rows =
                      [i \in 1..NRows(df) |->
                          [j \in 1..NCols(df) |->
                              IF df.rows[i][j] # NA THEN df.rows[i][j]
                              ELSE IF df.kinds[j] = "num"
                              THEN KnnValue(df, NumericCols(df), i, j)
                              ELSE Mode(Present(df, j))[1]]]],
                  <<[operation |-> "handle_missing_values",
                     strategy |-> "knn"]>>)

\* missing_pct >= 50
MissingAtLeastHalf(df, j) == NRows(df) > 0 /\ 2 * NullCount(df, j) >= NRows(df)

\* missing_pct > 50, with missing_pct = isnull().sum() / len(df) * 100
\* (0/0 is nan, which compares False)
MissingOverHalf(df, j) == NRows(df) > 0 /\ 2 * NullCount(df, j) > NRows(df)
\* missing_pct > 0
MissingAny(df, j) == NRows(df) > 0 /\ NullCount(df, j) > 0

\* the columns df_clean[col].fillna(value, inplace=True) changes in
\* df_clean: the call works on the Series df_clean[col] returns, which
\* shares its data with the frame unless copy-on-write is on
InplaceFilled(cols) == IF copy_on_write THEN {} ELSE cols

\* the smart branch followed by dropna()
SmartStrategyDroppingRows(df) ==
    IF HasDuplicateNames(df) THEN Raised(df)
    ELSE LET kept == {j \in 1..NCols(df) : ~MissingOverHalf(df, j)}
             filled == InplaceFilled({j \in kept : MissingAny(df, j)})
             df_clean == KeepCols(Imputed(df, filled), kept)
         IN Returned(KeepRows(df_clean,
                         {i \in 1..NRows(df_clean) :
                             \A j \in 1..NCols(df_clean) :
                                 df_clean.rows[i][j] # NA}),
                     <<[operation |-> "handle_missing_values",
                        strategy |-> "smart"]>>)

\* strategy == 'smart': df_clean[col] is a DataFrame when the label names
\* two columns, and `if missing_pct > 50` on its Series raises ValueError
SmartStrategy(df) ==
    IF HasDuplicateNames(df) THEN Raised(df)
    ELSE LET kept == {j \in 1..NCols(df) : ~MissingOverHalf(df, j)}
             filled == InplaceFilled({j \in kept : MissingAny(df, j)})
         IN Returned(KeepCols(Imputed(df, filled), kept),
                     <<[operation |-> "handle_missing_values",
                        strategy |-> "smart"]>>)

\* handle_missing_values rejecting a strategy it does not know
handle_missing_values_strict(df, strategy) ==
    CASE strategy = "drop"   -> DropStrategy(df)
      [] strategy = "simple" -> SimpleStrategy(df)
      [] strategy = "knn"    -> KnnStrategy(df)
      [] strategy = "smart"  -> SmartStrategy(df)
      [] OTHER               -> Raised(df)

handle_missing_values(df, strategy) ==
    CASE strategy = "drop"   -> DropStrategy(df)
      [] strategy = "simple" -> SimpleStrategy(df)
      [] strategy = "knn"    -> KnnStrategy(df)
      [] strategy = "smart"  -> SmartStrategy(df)
      [] OTHER               -> Returned(df, <<>>)

\* the positions of the columns drop_duplicates compares
SubsetCols(df, subset) ==
    IF subset = None THEN 1..NCols(df)
    ELSE {j \in 1..NCols(df) : df.names[j] \in Range(Get(subset))}

\* only the row right before row i is compared with it
DuplicatedOfPrevious(df, cols, i) ==
    /\ cols # {}
    /\ i > 1
    /\ \A j \in cols : df.rows[i - 1][j] = df.rows[i][j]
    /\ \A k \in 1..(i - 2) : \E j \in cols : df.rows[k][j] # df.rows[i - 1][j]

\* df.duplicated(subset)[i]: an earlier row agrees with row i on the subset
\* (a frame without columns is empty and has no duplicates)
Duplicated(df, cols, i) ==
    /\ cols # {}
    /\ \E k \in 1..(i - 1) : \A j \in cols : df.rows[k][j] = df.rows[i][j]

\* drop_duplicates(keep='last'): a later row agrees with row i on the subset
remove_duplicates_keep_last(df, subset) ==
    IF subset # None /\ ~(Range(Get(subset)) \subseteq Range(df.names))
    THEN Raised(df)
    ELSE LET cols == SubsetCols(df, subset)
             df_dedup == KeepRows(df, {i \in 1..NRows(df) :
                            ~(/\ cols # {}
                              /\ \E k \in (i + 1)..NRows(df) : \A j \in cols :
                                    df.rows[k][j] = df.rows[i][j])})
         IN Returned(df_dedup,
                     <<[operation |-> "remove_duplicates",
                        duplicates_removed |-> NRows(df) - NRows(df_dedup),
                        subset |-> subset]>>)

remove_duplicates(df, subset) ==
    IF subset # None /\ ~(Range(Get(subset)) \subseteq Range(df.names))
    THEN Raised(df)   \* KeyError
    ELSE LET cols == SubsetCols(df, subset)
             df_dedup == KeepRows(df, {i \in 1..NRows(df) :
                                          ~Duplicated(df, cols, i)})
         IN Returned(df_dedup,
                     <<[operation |-> "remove_duplicates",
                        duplicates_removed |-> NRows(df) - NRows(df_dedup),
                        subset |-> subset]>>)

\* the value a scaler writes for x in a column with the observed values s;
\* the cell keeps the centred numerator, the division by the column's scale
\* (standard deviation, range, interquartile range) is not carried
Scaled(method, s, x) ==
    CASE method = "standard" -> Len(s) * x - SeqSum(s)
      [] method = "minmax"   -> x - SortedSeq(s)[1]
      [] OTHER               -> x - Median(s)

normalize_numeric_columns(df, method, columns) ==
    LET numeric_cols ==
            IF columns = None THEN NumericCols(df)
            ELSE {j \in 1..NCols(df) : df.names[j] \in Range(Get(columns))}
        df_normalized ==
            [df EXCEPT !.rows =
                [i \in 1..NRows(df) |->
                    [j \in 1..NCols(df) |->
                        IF j \in numeric_cols /\ df.rows[i][j] # NA
                        THEN Scaled(method, Present(df, j), df.rows[i][j])
                        ELSE df.rows[i][j]]]]
    IN IF numeric_cols = {} THEN Returned(df, <<>>)
       ELSE IF method \notin {"standard", "minmax", "robust"}
       THEN Raised(df)   \* ValueError: unknown normalization method
       ELSE IF NRows(df) = 0 \/ \E j \in numeric_cols : df.kinds[j] # "num"
       THEN Raised(df)   \* fit_transform: no sample, or a string cell
       ELSE Returned(df_normalized,
                     <<[operation |-> "normalize_numeric_columns",
                        method |-> method,
                        columns |-> Filter(df.names, numeric_cols)]>>)

\* df[column].dropna().unique(): the distinct values in first-seen order
RECURSIVE Unique(_)
Unique(s) ==
    IF s = <<>> THEN <<>>
    ELSE LET n == Len(s)
             front == Unique(SubSeq(s, 1, n - 1))
         IN IF s[n] \in Range(front) THEN front ELSE Append(front, s[n])

\* position of value v in the sequence u of distinct values
IndexOf(u, v) == CHOOSE k \in 1..Len(u) : u[k] = v

\* process.extract lists match x before match y: higher score against the
\* anchor first, equal scores in the order of the choices
MatchBefore(u, anchor, x, y) ==
    \/ ScoreGreater(x, y, anchor)
    \/ /\ ~ScoreGreater(y, x, anchor)
       /\ IndexOf(u, x) < IndexOf(u, y)

\* similar_group of an anchor, as a set
SimilarGroup(u, anchor, threshold) ==
    {x \in Range(u) : ScoreAtLeast(x, anchor, threshold)}

\* the anchor taken as the canonical value of its group
CanonicalAnchor(col, u, anchor, group) == anchor

\* the most frequent member, ties broken by the order of the distinct values
CanonicalFirstSeen(col, u, anchor, group) ==
    LET count(x) == Cardinality({i \in 1..Len(col) : col[i] = x})
    IN CHOOSE c \in group : \A d \in group \ {c} :
          \/ count(c) > count(d)
          \/ count(c) = count(d) /\ IndexOf(u, c) < IndexOf(u, d)

\* max(similar_group, key=count): the first of the most frequent members
Canonical(col, u, anchor, group) ==
    LET count(x) == Cardinality({i \in 1..Len(col) : col[i] = x})
    IN CHOOSE c \in group : \A d \in group \ {c} :
          \/ count(c) > count(d)
          \/ count(c) = count(d) /\ MatchBefore(u, anchor, c, d)

RECURSIVE ValueMapping(_, _, _, _, _, _)
\* the loop over unique_values from position k on, with the value_mapping
\* and the processed set built so far; yields the final value_mapping
ValueMapping(col, u, threshold, k, mapping, processed) ==
    IF k > Len(u) THEN mapping
    ELSE IF u[k] \in processed
    THEN ValueMapping(col, u, threshold, k + 1, mapping, processed)
    ELSE LET group == SimilarGroup(u, u[k], threshold)
             canonical == Canonical(col, u, u[k], group)
         IN IF Cardinality(group) > 1
            THEN ValueMapping(col, u, threshold, k + 1,
                     [x \in DOMAIN mapping \cup group |->
                         IF x \in group THEN canonical ELSE mapping[x]],
                     processed \cup group)
            ELSE ValueMapping(col, u, threshold, k + 1, mapping, processed)

RECURSIVE Visits(_, _, _, _, _)
\* the iterations of the loop, from position k on, that found a group of
\* more than one value: the anchor, its similar_group and the canonical
Visits(col, u, threshold, k, processed) ==
    IF k > Len(u) THEN <<>>
    ELSE IF u[k] \in processed
    THEN Visits(col, u, threshold, k + 1, processed)
    ELSE LET group == SimilarGroup(u, u[k], threshold)
         IN IF Cardinality(group) > 1
            THEN <<[anchor |-> u[k], group |-> group,
                    canonical |-> Canonical(col, u, u[k], group)]>>
                 \o Visits(col, u, threshold, k + 1, processed \cup group)
            ELSE Visits(col, u, threshold, k + 1, processed)

\* the empty dict
EmptyMapping == [x \in {} |-> 0]

\* unify_categories on a frame that has the column
UnifyColumn(df, column, similarity_threshold) ==
    IF \E i, j \in 1..NCols(df) :
           i # j /\ df.names[i] = column /\ df.names[j] = column
    THEN Raised(df)   \* df[column] is a DataFrame, without unique()
    ELSE LET j == CHOOSE c \in 1..NCols(df) : df.names[c] = column
             col == Column(df, j)
             unique_values == Unique(Present(df, j))
             value_mapping == ValueMapping(col, unique_values,
                                  similarity_threshold, 1, EmptyMapping, {})
             df_unified ==
                 [df EXCEPT !.rows =
                     [i \in 1..NRows(df) |->
                         [c \in 1..NCols(df) |->
                             IF c = j /\ df.rows[i][c] \in DOMAIN value_mapping
                             THEN value_mapping[df.rows[i][c]]
                             ELSE df.rows[i][c]]]]
         IN IF DOMAIN value_mapping # {}
            THEN Returned(df_unified,
                          <<[operation |-> "unify_categories",
                             column |-> column,
                             unified_count |-> Cardinality(DOMAIN value_mapping),
                             threshold |-> similarity_threshold]>>)
            ELSE Returned(df, <<>>)

\* an absent column raised to the caller instead of being skipped
unify_categories_raising(df, column, similarity_threshold) ==
    IF column \notin Range(df.names) THEN Raised(df)
    ELSE UnifyColumn(df, column, similarity_threshold)

unify_categories(df, column, similarity_threshold) ==
    IF column \notin Range(df.names) THEN Returned(df, <<>>)
    ELSE UnifyColumn(df, column, similarity_threshold)

(***************************************************************************)
(* RefinerAgent.run                                                        *)
(***************************************************************************)
\* operations = None: the default operations
DefaultOperations ==
    <<"clean_column_names", "handle_missing_values", "remove_duplicates">>

\* the order of the `if ... in operations` blocks of run
RunOrder ==
    <<"clean_column_names", "handle_missing_values", "remove_duplicates",
      "normalize">>

\* run executing no block when the list holds a name it has no block for
DispatchNothingOnUnknown(operations) ==
    IF Range(operations) \subseteq Range(RunOrder)
    THEN SelectSeq(RunOrder, LAMBDA o : o \in Range(operations))
    ELSE <<>>

\* the blocks executed in the order of the operations list
DispatchInListOrder(operations) ==
    SelectSeq(operations, LAMBDA o : o \in Range(RunOrder))

\* the blocks of run that execute for an operations list, in execution order
Dispatch(operations) ==
    SelectSeq(RunOrder, LAMBDA o : o \in Range(operations))

\* the call one block of run makes
Apply(op, df) ==
    CASE op = "clean_column_names"    -> clean_column_names(df)
      [] op = "handle_missing_values" -> handle_missing_values(df, "smart")
      [] op = "remove_duplicates"     -> remove_duplicates(df, None)
      [] op = "normalize" -> normalize_numeric_columns(df, "standard", None)

\* run going on with the next block after a block raised
RECURSIVE RunBlocksContinuing(_, _, _, _)
RunBlocksContinuing(todo, df_refined, log, performed) ==
    IF todo = <<>>
    THEN [raised |-> FALSE, df |-> df_refined, log |-> log,
          performed |-> performed, error |-> None]
    ELSE LET r == Apply(Head(todo), df_refined)
             rest == RunBlocksContinuing(Tail(todo), r.df, log \o r.log,
                         IF r.raised THEN performed
                         ELSE Append(performed, Head(todo)))
         IN IF r.raised
            THEN [rest EXCEPT !.raised = TRUE, !.error = Some(Head(todo))]
            ELSE rest

RECURSIVE RunBlocks(_, _, _, _)
\* the try body of run: the blocks still to execute, df_refined, the
\* contents of transformation_log and operations_performed so far
RunBlocks(todo, df_refined, log, performed) ==
    IF todo = <<>>
    THEN [raised |-> FALSE, df |-> df_refined, log |-> log,
          performed |-> performed, error |-> None]
    ELSE LET r == Apply(Head(todo), df_refined)
         IN IF r.raised
            THEN [raised |-> TRUE, df |-> df_refined, log |-> log,
                  performed |-> performed, error |-> Some(Head(todo))]
            ELSE RunBlocks(Tail(todo), r.df, log \o r.log,
                           Append(performed, Head(todo)))

\* run without the reset: the list keeps the entries it holds
KeptLog(old) == old

\* self.transformation_log = []: the contents of the list run starts with
FreshLog(old) == <<>>

\* run(df, operations) on an agent whose transformation_log holds old and
\* whose new list object gets the reference ref: the frame returned, the
\* results dict, the final contents of the new list and the entries the
\* operations of this run appended to it
RefinerRun(old, ref, df, operations) ==
    LET ops == IF operations = None THEN DefaultOperations
               ELSE Get(operations)
        start == FreshLog(old)
        body == RunBlocks(Dispatch(ops), df, start, <<>>)
    IN [df |-> body.df,
        operations |-> ops,
        log |-> body.log,
        appended |-> SubSeq(body.log, Len(start) + 1, Len(body.log)),
        results |->
            [operations_performed |-> body.performed,
             rows_before |-> NRows(df),
             rows_after |-> IF body.raised THEN 0 ELSE NRows(body.df),
             columns_before |-> NCols(df),
             columns_after |-> IF body.raised THEN 0 ELSE NCols(body.df),
             status |-> IF body.raised THEN "failed" ELSE "success",
             error |-> body.error,
             transformation_log |-> IF body.raised THEN None ELSE Some(ref)]]

(***************************************************************************)
(* Inputs                                                                  *)
(***************************************************************************)
\* two object columns whose labels collide once cleaned; city is 20%
\* missing and holds near-duplicate labels, row 5 repeats row 2
DupFrame ==
    [names |-> <<"City", "city">>, kinds |-> <<"cat", "cat">>,
     rows |-> << <<2, 4>>, <<7, 5>>, <<2, NA>>, <<2, 6>>, <<7, 5>> >>]

\* a numeric column without rows
EmptyFrame ==
    [names |-> <<"Age">>, kinds |-> <<"num">>, rows |-> <<>>]

\* Age 25% missing, Score 75% missing, City complete; row 4 repeats row 1
\* once Age is imputed and Score is dropped
MixedFrame ==
    [names |-> <<"Age", "Score", "City">>, kinds |-> <<"num", "num", "cat">>,
     rows |-> << <<20, NA, 2>>, <<NA, NA, 7>>, <<40, NA, 2>>, <<20, 10, 2>> >>]

Datasets == {DupFrame, EmptyFrame, MixedFrame}

OpNames ==
    {"clean_column_names", "handle_missing_values", "remove_duplicates",
     "normalize", "unify_categories", "bogus_op"}

\* the operations lists of at most MaxOps names
OpLists == UNION {[1..n -> OpNames] : n \in 0..MaxOps}

Strategies == {"drop", "simple", "knn", "smart", "mean"}
Subsets == {None, Some(<<"city">>)}
Methods == {"standard", "minmax", "robust", "zscore"}
ColumnLists == {None, Some(<<"Age">>)}
UnifyColumns == {"city", "City", "region"}
Thresholds == {80, 30}

(***************************************************************************)
(* The RefinerAgent as a state machine: run and the direct calls           *)
(***************************************************************************)
\* no call made yet
NoCall == [input |-> EmptyFrame, args |-> <<>>]

\* RefinerAgent.__init__
RefinerInit ==
    /\ heap = << <<>> >>
    /\ transformation_log = 1
    /\ reports = <<>>
    /\ calls = 0
    /\ lastCall = [call |-> "init", operations |-> <<>>, raised |-> FALSE,
                   df |-> EmptyFrame, appended |-> <<>>]
    /\ given = NoCall
    /\ copy_on_write \in BOOLEAN

\* a direct call of one operation returned or raised: the entries it
\* appended are in the current list
DirectCall(name, r) ==
    /\ calls' = calls + 1
    /\ heap' = [heap EXCEPT ![transformation_log] = @ \o r.log]
    /\ lastCall' = [call |-> name, operations |-> <<>>, raised |-> r.raised,
                    df |-> r.df, appended |-> r.log]
    /\ UNCHANGED <<transformation_log, reports, copy_on_write, orchVars>>

CallClean ==
    /\ calls < MaxCalls
    /\ UNCHANGED given
    /\ \E df \in Datasets :
          DirectCall("clean_column_names", clean_column_names(df))

CallMissing ==
    /\ calls < MaxCalls
    /\ UNCHANGED given
    /\ \E df \in Datasets, strategy \in Strategies :
          DirectCall("handle_missing_values",
                     handle_missing_values(df, strategy))

CallDedupe ==
    /\ calls < MaxCalls
    /\ UNCHANGED given
    /\ \E df \in Datasets, subset \in Subsets :
          DirectCall("remove_duplicates", remove_duplicates(df, subset))

\* (called on an object column, or with a label the frame does not have)
CallUnify ==
    /\ calls < MaxCalls
    /\ UNCHANGED given
    /\ \E df \in Datasets, column \in UnifyColumns, threshold \in Thresholds :
          /\ \A j \in 1..NCols(df) :
                df.names[j] = column => df.kinds[j] = "cat"
          /\ DirectCall("unify_categories",
                        unify_categories(df, column, threshold))

CallNormalize ==
    /\ calls < MaxCalls
    /\ UNCHANGED given
    /\ \E df \in Datasets, method \in Methods, columns \in ColumnLists :
          DirectCall("normalize_numeric_columns",
                     normalize_numeric_columns(df, method, columns))

\* the agent state after run(df, operations), given what run yields
AfterRun(out) ==
    /\ heap' = Append(heap, out.log)
    /\ transformation_log' = Len(heap) + 1
    /\ reports' = Append(reports, out.results)
    /\ lastCall' = [call |-> "run", operations |-> out.operations,
                    raised |-> FALSE, df |-> out.df, appended |-> out.appended]

Run ==
    /\ calls < MaxCalls
    /\ calls' = calls + 1
    /\ \E df \in Datasets, operations \in {None} \cup {Some(l) : l \in OpLists} :
          AfterRun(RefinerRun(heap[transformation_log], Len(heap) + 1,
                              df, operations))
    /\ UNCHANGED <<given, copy_on_write, orchVars>>

\* the calls made on a bare agent
RefinerNext ==
    \/ Run
    \/ CallClean
    \/ CallMissing
    \/ CallDedupe
    \/ CallUnify
    \/ CallNormalize


(***************************************************************************)
(* PipelineOrchestrator                                                    *)
(***************************************************************************)
\* pipeline.refiner.operations of the configurations explored
CfgOperations ==
    {None, Some(DefaultOperations), Some(<<"remove_duplicates", "normalize">>)}

Configs ==
    [inspector : BOOLEAN, refiner : BOOLEAN, insight : BOOLEAN,
     operations : CfgOperations]

\* input_data: a DataFrame, a path (does the file exist, its suffix, the
\* table it holds) or a value of another type
Inputs ==
    {[kind |-> "frame", exists |-> TRUE, suffix |-> "", df |-> d] :
        d \in {DupFrame, EmptyFrame, MixedFrame}}
    \cup {[kind |-> "path", exists |-> TRUE, suffix |-> ".csv", df |-> MixedFrame],
          [kind |-> "path", exists |-> FALSE, suffix |-> ".csv", df |-> EmptyFrame],
          [kind |-> "path", exists |-> TRUE, suffix |-> ".txt", df |-> EmptyFrame],
          [kind |-> "other", exists |-> FALSE, suffix |-> "", df |-> EmptyFrame]}

\* output_path: None or a path with its suffix
OutputPaths == {None, Some(".csv"), Some(".txt")}

SupportedSuffixes == {".csv", ".xlsx", ".xls", ".json", ".parquet"}

NoArgs == [input_data |-> [kind |-> "other", exists |-> FALSE, suffix |-> "",
                           df |-> EmptyFrame],
           output_path |-> None]

\* _get_default_config()['pipeline']
DefaultConfig ==
    [inspector |-> TRUE, refiner |-> TRUE, insight |-> TRUE,
     operations |-> Some(DefaultOperations)]

\* PipelineOrchestrator.__init__ with the configuration cfg
OrchInit(cfg) ==
    /\ config = cfg
    /\ pipeline_metrics = [start_time |-> None, end_time |-> None,
                           duration_seconds |-> None, stages |-> <<>>,
                           status |-> None, error |-> None]
    /\ pc = "idle"
    /\ args = NoArgs
    /\ df_local = None
    /\ runs = 0
    /\ result = None
    /\ store = None
    /\ handed = None
    /\ saved = None
    /\ runStart = 0

Init == RefinerInit /\ \E cfg \in Configs : OrchInit(cfg)

\* load_data(file_path): the error it raises, or None
LoadError(input) ==
    IF ~input.exists THEN Some("Data file not found")
    ELSE IF input.suffix \notin SupportedSuffixes
    THEN Some("Unsupported file format")
    ELSE None

\* save_data(df, file_path): the error it raises, or None
SaveError(suffix) ==
    IF suffix \notin SupportedSuffixes THEN Some("Unsupported file format")
    ELSE None

\* the stage recorded a second time, as after a retry
WithStageRetried(metrics, stage, status) ==
    [metrics EXCEPT !.stages =
        Append(Append(@, [stage |-> stage, status |-> "failed"]),
               [stage |-> stage, status |-> status])]

\* pipeline_metrics['stages'].append({...})
WithStage(metrics, stage, status) ==
    [metrics EXCEPT !.stages = Append(@, [stage |-> stage, status |-> status])]

\* the except block of run_pipeline: the metrics it leaves
FailedMetrics(metrics, now, message) ==
    [metrics EXCEPT !.end_time = Some(now),
                    !.status = Some("failed"),
                    !.error = Some(message)]

\* the try body raised: the except block runs and run_pipeline returns
Fail(metrics, message) ==
    /\ pipeline_metrics' = FailedMetrics(metrics, runs, message)
    /\ result' = Some([status |-> "failed", error |-> Some(message),
                       processed_data |-> None])
    /\ pc' = "idle"
    /\ df_local' = None
    /\ UNCHANGED <<args, store>>

\* run_pipeline is called: start_time is set
StartRun ==
    \E input_data \in Inputs, output_path \in OutputPaths :
        /\ pc = "idle"
        /\ runs < MaxRuns
        /\ runs' = runs + 1
        /\ args' = [input_data |-> input_data, output_path |-> output_path]
        /\ pipeline_metrics' = [pipeline_metrics EXCEPT !.start_time = Some(runs + 1)]
        /\ pc' = "load"
        /\ runStart' = Len(pipeline_metrics.stages)
        /\ handed' = None
        /\ saved' = None
        /\ UNCHANGED <<config, df_local, result, store, refinerVars>>

\* Stage 1: load data
LoadStage ==
    /\ pc = "load"
    /\ LET input == args.input_data
           error == IF input.kind = "path" THEN LoadError(input)
                    ELSE IF input.kind = "frame" THEN None
                    ELSE Some("input_data must be a file path or DataFrame")
       IN IF error # None
          THEN Fail(pipeline_metrics, Get(error))
          ELSE /\ df_local' = Some(input.df)
               /\ pipeline_metrics' = WithStage(pipeline_metrics, "load_data", "success")
               /\ pc' = "inspect"
               /\ UNCHANGED <<result, store>>
    /\ UNCHANGED <<config, args, runs, handed, saved, runStart, refinerVars>>

\* Stage 2: inspector agent; InspectorAgent.run catches what its
\* collaborators raise and reports it in its status
InspectStage ==
    /\ pc = "inspect"
    /\ IF config.inspector
       THEN \E status \in {"success", "failed"} :
               pipeline_metrics' = WithStage(pipeline_metrics, "inspector", status)
       ELSE UNCHANGED pipeline_metrics
    /\ pc' = "refine"
    /\ UNCHANGED <<config, args, df_local, runs, result, store, handed, saved,
                   runStart, refinerVars>>

\* Stage 3: refiner agent
RefineStage ==
    /\ pc = "refine"
    /\ IF config.refiner
       THEN LET out == RefinerRun(heap[transformation_log], Len(heap) + 1,
                                  Get(df_local), config.operations)
            IN /\ AfterRun(out)
               /\ pipeline_metrics' = WithStage(pipeline_metrics, "refiner",
                                                out.results.status)
               /\ df_local' = Some(out.df)
       ELSE UNCHANGED <<pipeline_metrics, df_local, transformation_log, heap,
                        reports, lastCall>>
    /\ pc' = "insight"
    /\ UNCHANGED <<config, args, runs, result, store, handed, saved,
                   runStart, calls, given, copy_on_write>>

\* Stage 4: insight agent; InsightAgent.run catches what its collaborators
\* raise and reports it in its status
InsightStage ==
    /\ pc = "insight"
    /\ IF config.insight
       THEN /\ \E status \in {"success", "failed"} :
                  pipeline_metrics' = WithStage(pipeline_metrics, "insight", status)
            /\ handed' = df_local
       ELSE UNCHANGED <<pipeline_metrics, handed>>
    /\ pc' = "save"
    /\ UNCHANGED <<config, args, df_local, runs, result, store, saved, runStart,
                   refinerVars>>

\* Stage 5: save processed data
SaveStage ==
    /\ pc = "save"
    /\ IF args.output_path = None
       THEN /\ pc' = "finalize"
            /\ UNCHANGED <<pipeline_metrics, saved, df_local, result, store>>
       ELSE IF SaveError(Get(args.output_path)) # None
       THEN /\ Fail(pipeline_metrics, Get(SaveError(Get(args.output_path))))
            /\ UNCHANGED saved
       ELSE /\ saved' = df_local
            /\ pipeline_metrics' = WithStage(pipeline_metrics, "save_data", "success")
            /\ pc' = "finalize"
            /\ UNCHANGED <<df_local, result, store>>
    /\ UNCHANGED <<config, args, runs, handed, runStart, refinerVars>>

\* finalize metrics, save them and return
FinalMetrics(metrics, now) ==
    [metrics EXCEPT !.end_time = Some(now),
                    !.duration_seconds = Some(now),
                    !.status = Some("success")]

Finalize ==
    /\ pc = "finalize"
    /\ pipeline_metrics' = FinalMetrics(pipeline_metrics, runs)
    /\ store' = Some(pipeline_metrics')
    /\ result' = Some([status |-> "success", error |-> None,
                       processed_data |-> df_local])
    /\ pc' = "idle"
    /\ df_local' = None
    /\ UNCHANGED <<config, args, runs, handed, saved, runStart, refinerVars>>

Next ==
    \/ StartRun
    \/ LoadStage
    \/ InspectStage
    \/ RefineStage
    \/ InsightStage
    \/ SaveStage
    \/ Finalize

Spec == Init /\ [][Next]_vars

\* a bare RefinerAgent, called directly
RefinerOnlyInit == RefinerInit /\ OrchInit(DefaultConfig)

RefinerSpec == RefinerOnlyInit /\ [][RefinerNext]_vars

(***************************************************************************)
(* A caller that holds a frame and passes it through the agent: each call  *)
(* takes the frame the previous call returned.                             *)
(***************************************************************************)
\* the rows the frames are built from: age (numeric) and city (object)
RowPool ==
    {<<10, 2>>, <<30, 2>>, <<NA, 2>>, <<10, NA>>, <<30, 7>>, <<NA, NA>>}

\* the frames of at most MaxRows rows
Frames ==
    {[names |-> <<"age", "city">>, kinds |-> <<"num", "cat">>, rows |-> r] :
        r \in UNION {[1..n -> RowPool] : n \in 0..MaxRows}}

\* frames of one object column, of at most MaxCategoryRows rows, whose
\* values are the labels "abcd", "abcde" and "bcde"
CategoryFrames ==
    {[names |-> <<"city">>, kinds |-> <<"cat">>, rows |-> r] :
        r \in UNION {[1..n -> {<<4>>, <<5>>, <<6>>}] : n \in 0..MaxCategoryRows}}

\* the frames a caller starts with: those, and the frame whose labels
\* collide once cleaned
StartFrames == Frames \cup {DupFrame} \cup CategoryFrames

\* subset arguments: all columns, a column of the frame, an absent label
ChainSubsets == {None, Some(<<"city">>), Some(<<"region">>)}

\* a fresh agent and the frame the caller starts with
ChainInit ==
    /\ heap = << <<>> >>
    /\ transformation_log = 1
    /\ reports = <<>>
    /\ calls = 0
    /\ \E frame \in StartFrames :
          lastCall = [call |-> "init", operations |-> <<>>, raised |-> FALSE,
                      df |-> frame, appended |-> <<>>]
    /\ given = NoCall
    /\ copy_on_write \in BOOLEAN
    /\ OrchInit(DefaultConfig)

\* the frame the caller holds: what the latest call returned (its argument
\* when the call raised)
Held == lastCall.df

\* a direct call on the held frame
ChainCall(name, arguments, r) ==
    /\ given' = [input |-> Held, args |-> arguments]
    /\ DirectCall(name, r)

\* the caller may go on while it made fewer than MaxChain calls, none of
\* them run (the direct calls are explored on frames with distinct labels)
MayCall ==
    /\ calls < MaxChain
    /\ lastCall.call # "run"
    /\ ~HasDuplicateNames(Held)

ChainClean ==
    /\ MayCall
    /\ ChainCall("clean_column_names", <<>>, clean_column_names(Held))

ChainMissing ==
    /\ MayCall
    /\ \E strategy \in Strategies :
          ChainCall("handle_missing_values", <<strategy>>,
                    handle_missing_values(Held, strategy))

ChainDedupe ==
    /\ MayCall
    /\ \E subset \in ChainSubsets :
          ChainCall("remove_duplicates", <<subset>>,
                    remove_duplicates(Held, subset))

\* (called on an object column, or with a label the frame does not have)
ChainUnify ==
    /\ MayCall
    /\ \E column \in UnifyColumns, threshold \in Thresholds :
          /\ \A j \in 1..NCols(Held) :
                Held.names[j] = column => Held.kinds[j] = "cat"
          /\ ChainCall("unify_categories", <<column, threshold>>,
                       unify_categories(Held, column, threshold))

\* run on the frame the caller starts with
ChainRun ==
    /\ calls = 0
    /\ calls' = calls + 1
    /\ \E operations \in {None} \cup {Some(l) : l \in OpLists} :
          /\ given' = [input |-> Held, args |-> <<operations>>]
          /\ AfterRun(RefinerRun(heap[transformation_log], Len(heap) + 1,
                                 Held, operations))
    /\ UNCHANGED <<copy_on_write, orchVars>>

ChainNext ==
    \/ ChainClean
    \/ ChainMissing
    \/ ChainDedupe
    \/ ChainUnify
    \/ ChainRun

ChainSpec == ChainInit /\ [][ChainNext]_vars

(***************************************************************************)
(* Properties of run_pipeline                                              *)
(***************************************************************************)
StageOrder == <<"load_data", "inspector", "refiner", "insight", "save_data">>

\* the StageRecords appended since the current call began
ThisRun ==
    SubSeq(pipeline_metrics.stages, runStart + 1, Len(pipeline_metrics.stages))

\* a call of run_pipeline has returned and no other has begun
Terminated == pc = "idle" /\ runs > 0

HasRecord(stage) == \E i \in 1..Len(ThisRun) : ThisRun[i].stage = stage

\* the refine stage of the current call reported 'failed'
RefineFailed ==
    \E i \in 1..Len(ThisRun) :
        ThisRun[i].stage = "refiner" /\ ThisRun[i].status = "failed"

\* C1: in a run where the refine stage fails, no insight or save StageRecord
\* is appended, no later stage is executed (the insight stage receives
\* nothing, the save stage writes nothing) and the status returned is
\* 'failed'.
C1_RefineFailureAborts ==
    RefineFailed =>
        /\ ~HasRecord("insight")
        /\ ~HasRecord("save_data")
        /\ handed = None
        /\ saved = None
        /\ Terminated => Get(result).status = "failed"

\* C2: whenever run_pipeline returns overall status 'success', every
\* StageRecord of the run has status 'success'.
C2_SuccessMeansAllStagesSucceeded ==
    (Terminated /\ Get(result).status = "success") =>
        \A i \in 1..Len(ThisRun) : ThisRun[i].status = "success"

\* position of a stage in the order of execution
StageRank(stage) == CHOOSE k \in 1..Len(StageOrder) : StageOrder[k] = stage

\* the stage run_pipeline is about to execute at pc
PcRank ==
    CASE pc = "load" -> 1 [] pc = "inspect" -> 2 [] pc = "refine" -> 3
      [] pc = "insight" -> 4 [] pc = "save" -> 5 [] OTHER -> 6

\* the stage is switched off by its own flag (save: by the missing path)
Disabled(stage) ==
    CASE stage = "inspector" -> ~config.inspector
      [] stage = "refiner"   -> ~config.refiner
      [] stage = "insight"   -> ~config.insight
      [] stage = "save_data" -> args.output_path = None
      [] OTHER               -> FALSE

\* C3: the StageRecords of the metrics are a subsequence of load_data,
\* inspector, refiner, insight, save_data; a stage starts only after every
\* earlier enabled stage has its record; and when the call has returned, a
\* stage without a record is disabled by its own flag (save: has no output
\* path) or comes after a stage that failed.
C3_StagesInOrder ==
    LET stages == pipeline_metrics.stages
    IN /\ \A i, j \in 1..Len(stages) :
              i < j => StageRank(stages[i].stage) < StageRank(stages[j].stage)
       /\ \A k \in 1..Len(StageOrder) :
              (pc # "idle" /\ k < PcRank /\ ~Disabled(StageOrder[k]))
                  => HasRecord(StageOrder[k])
       /\ Terminated =>
              \A k \in 1..Len(StageOrder) :
                  \/ HasRecord(StageOrder[k])
                  \/ Disabled(StageOrder[k])
                  \/ \E i \in 1..Len(ThisRun) :
                        /\ ThisRun[i].status = "failed"
                        /\ StageRank(ThisRun[i].stage) < k

\* C4: when load_data or save_data raises, a StageRecord of that stage with
\* status 'failed' is in the metrics when the run has become 'failed'.
C4_RaisedStageIsRecorded ==
    (Terminated /\ pipeline_metrics.error # None
        /\ pipeline_metrics.status = Some("failed")
        /\ Get(result).status = "failed") =>
        \E i \in 1..Len(ThisRun) :
            /\ ThisRun[i].stage \in {"load_data", "save_data"}
            /\ ThisRun[i].status = "failed"

\* C5: after run_pipeline has returned, with 'success' or with 'failed', the
\* metrics store holds the PipelineMetrics of that run.
C5_MetricsAlwaysPersisted ==
    Terminated => store = Some(pipeline_metrics)

\* C6: the metrics returned by the latest call hold only the StageRecords
\* appended during that call and no error or duration of an earlier call.
C6_MetricsScopedToRun ==
    Terminated =>
        /\ pipeline_metrics.stages = ThisRun
        /\ Get(result).status = "success" => pipeline_metrics.error = None
        /\ pipeline_metrics.duration_seconds \in {None, Some(runs)}

\* the refine stage of the current call failed after it had applied an
\* operation: lastCall.df is the partially refined frame
PartiallyRefined ==
    /\ RefineFailed
    /\ lastCall.call = "run"
    /\ reports[Len(reports)].operations_performed # <<>>

\* C7: a partially refined dataset of a failed refine stage is never handed
\* to the insight stage and never written by the save stage.
C7_PartialOutputDiscarded ==
    PartiallyRefined =>
        /\ handed # Some(lastCall.df)
        /\ saved # Some(lastCall.df)

(***************************************************************************)
(* Properties of RefinerAgent.run                                          *)
(***************************************************************************)
\* the agent has just returned from run
AfterRunCall == lastCall.call = "run"

\* the results dict of the latest run
LastReport == reports[Len(reports)]

\* the ledger as the agent holds it
Ledger == heap[transformation_log]

RecognizedBySpec ==
    {"clean_column_names", "handle_missing_values", "remove_duplicates",
     "normalize", "unify_categories"}

\* number of positions of the list that hold a name of the set
CountIn(operations, names) ==
    Cardinality({i \in 1..Len(operations) : operations[i] \in names})

OperationOf(entry) ==
    IF entry.operation = "normalize_numeric_columns" THEN "normalize"
    ELSE entry.operation

\* first position of a name in a list
FirstIndex(list, name) ==
    CHOOSE k \in 1..Len(list) :
        list[k] = name /\ \A l \in 1..(k - 1) : list[l] # name

\* C9 as stated: the ledger entries of a run appear in the order in which
\* their operations appear in the operations argument.
C9_LedgerInListOrder ==
    AfterRunCall =>
        \A i, j \in 1..Len(Ledger) :
            i < j => FirstIndex(lastCall.operations, OperationOf(Ledger[i]))
                     < FirstIndex(lastCall.operations, OperationOf(Ledger[j]))

\* C9 amended: run applies the requested operations in the fixed order
\* clean_column_names, handle_missing_values, remove_duplicates, normalize,
\* whatever their order in operations, and the ledger entries and
\* operations_performed appear in that order.
C9_LedgerInFixedOrder ==
    AfterRunCall =>
        /\ \A i, j \in 1..Len(Ledger) :
              i < j => FirstIndex(RunOrder, OperationOf(Ledger[i]))
                       < FirstIndex(RunOrder, OperationOf(Ledger[j]))
        /\ LET performed == LastReport.operations_performed
           IN \A i, j \in 1..Len(performed) :
                 i < j => FirstIndex(RunOrder, performed[i])
                          < FirstIndex(RunOrder, performed[j])

\* operations [remove_duplicates, handle_missing_values] on MixedFrame:
\* missing values were resolved first, so that row 4 became a duplicate
C9_Witness ==
    /\ AfterRunCall
    /\ lastCall.operations = <<"remove_duplicates", "handle_missing_values">>
    /\ Len(Ledger) = 2
    /\ Ledger[1].operation = "handle_missing_values"
    /\ Ledger[2].operation = "remove_duplicates"
    /\ Ledger[2].duplicates_removed = 1
    /\ LastReport.rows_before = 4
    /\ LastReport.rows_after = 3

\* C10: the ledger a run reports (and the agent holds when run returns)
\* contains exactly the entries appended during that run, whatever runs and
\* direct calls came before; and a run leaves the ledger reported by every
\* earlier run as it was.
C10_LedgerResetPerRun ==
    /\ [](AfterRunCall =>
            /\ Ledger = lastCall.appended
            /\ LastReport.status = "success" =>
                   LastReport.transformation_log = Some(transformation_log))
    /\ [][Len(reports') > Len(reports) =>
            \A k \in 1..Len(reports) :
                reports[k].transformation_log # None =>
                    heap'[Get(reports[k].transformation_log)]
                        = heap[Get(reports[k].transformation_log)]]_vars

\* a direct call logged an entry, then run returned a ledger of its own
C10_Witness ==
    /\ AfterRunCall
    /\ heap[1] # <<>>
    /\ LastReport.status = "success"
    /\ Ledger # <<>>

(***************************************************************************)
(* Properties of run on a frame the caller holds                           *)
(***************************************************************************)
\* the operations argument of the latest run, None replaced by the default
RunOperations == lastCall.operations

\* the operations list without the names the agent does not know
WithoutUnknown(operations) ==
    SelectSeq(operations, LAMBDA o : o \in RecognizedBySpec)

\* C11: unknown operation names passed to run are ignored: the run returns
\* the dataset, the ledger and the status it returns for the same list with
\* the unknown names removed (so it does not fail because of them).
C11_UnknownOperationsIgnored ==
    AfterRunCall =>
        LET same == RefinerRun(<<>>, transformation_log, given.input,
                               Some(WithoutUnknown(RunOperations)))
        IN /\ lastCall.df = same.df
           /\ Ledger = same.log
           /\ LastReport.status = same.results.status

\* a run with an unknown name among its operations succeeded and logged the
\* operations it knows
C11_Witness ==
    /\ AfterRunCall
    /\ RunOperations = <<"bogus_op", "remove_duplicates">>
    /\ LastReport.status = "success"
    /\ Len(Ledger) = 1
    /\ Ledger[1].duplicates_removed > 0

RECURSIVE AfterBlocks(_, _)
\* the frame after the blocks of a list, none of which raises
AfterBlocks(blocks, df) ==
    IF blocks = <<>> THEN df
    ELSE AfterBlocks(Tail(blocks), Apply(Head(blocks), df).df)

C13_ResultsCarryCounts ==
    AfterRunCall =>
        /\ LastReport.rows_before = NRows(given.input)
        /\ LastReport.columns_before = NCols(given.input)
        /\ LastReport.rows_after = NRows(lastCall.df)
        /\ LastReport.columns_after = NCols(lastCall.df)
        /\ LastReport.transformation_log = Some(transformation_log)

(***************************************************************************)
(* Properties of remove_duplicates                                         *)
(***************************************************************************)
\* the latest call was remove_duplicates and it returned
AfterDedupe == lastCall.call = "remove_duplicates" /\ ~lastCall.raised

\* rows a and b agree on the columns at the positions in cols
AgreeOn(cols, a, b) == \A j \in cols : a[j] = b[j]

\* the positions of the columns the latest remove_duplicates compared
DedupeCols == SubsetCols(given.input, given.args[1])

\* what C14 says of a remove_duplicates call that returned
IdempotentCall ==
        LET out == lastCall.df
            again == remove_duplicates(out, given.args[1])
            before == Ledger[Len(Ledger) - 1]
        IN /\ \A a, b \in 1..NRows(out) :
                 a # b => ~AgreeOn(DedupeCols, out.rows[a], out.rows[b])
           /\ ~again.raised
           /\ again.df = out
           /\ again.log[1].duplicates_removed = 0
           /\ (/\ Len(Ledger) >= 2
               /\ before.operation = "remove_duplicates"
               /\ before.subset = given.args[1])
              => /\ lastCall.df = given.input
                 /\ lastCall.appended[1].duplicates_removed = 0

\* C14 as stated: remove_duplicates is idempotent for every dataset and
\* every subset: its output has no two rows equal on the subset, and applied
\* to its own output (same subset) it returns that output and logs
\* duplicates_removed = 0.
C14_RemoveDuplicatesIdempotent == AfterDedupe => IdempotentCall

\* C14 amended: the same for every dataset that has at least one column; a
\* dataset without columns is returned as it is, with all its rows, and the
\* call logs duplicates_removed = 0.
C14_IdempotentWithColumns ==
    AfterDedupe =>
        IF NCols(given.input) > 0 THEN IdempotentCall
        ELSE /\ lastCall.df = given.input
             /\ lastCall.appended[1].duplicates_removed = 0

\* remove_duplicates removed two rows, then was applied to its output
C14_Witness ==
    /\ AfterDedupe
    /\ Len(Ledger) = 2
    /\ Ledger[1].operation = "remove_duplicates"
    /\ Ledger[1].subset = given.args[1]
    /\ Ledger[1].duplicates_removed = 2
    /\ Ledger[2].duplicates_removed = 0
    /\ NRows(lastCall.df) = 1

\* position in the input of the first row that agrees with row on cols
FirstOccurrence(df, cols, row) ==
    CHOOSE i \in 1..NRows(df) :
        /\ AgreeOn(cols, df.rows[i], row)
        /\ \A k \in 1..(i - 1) : ~AgreeOn(cols, df.rows[k], row)

\* what C15 says of a remove_duplicates call that returned
FirstOccurrencesKept ==
        LET inp == given.input
            out == lastCall.df
            cols == DedupeCols
        IN /\ \A i \in 1..NRows(inp) : \E p \in 1..NRows(out) :
                 AgreeOn(cols, inp.rows[i], out.rows[p])
           /\ \A p \in 1..NRows(out) :
                 /\ \E i \in 1..NRows(inp) : AgreeOn(cols, inp.rows[i], out.rows[p])
                 /\ out.rows[p] = inp.rows[FirstOccurrence(inp, cols, out.rows[p])]
           /\ \A p, q \in 1..NRows(out) :
                 p < q => FirstOccurrence(inp, cols, out.rows[p])
                          < FirstOccurrence(inp, cols, out.rows[q])
           /\ out.names = inp.names
           /\ Len(lastCall.appended) = 1
           /\ lastCall.appended[1].duplicates_removed = NRows(inp) - NRows(out)

\* C15 as stated: remove_duplicates keeps, of each group of rows equal on
\* the subset columns (all columns without subset), exactly the first
\* occurrence, keeps the retained rows in their original relative order, and
\* logs duplicates_removed = input row count - output row count.
C15_KeepsFirstOccurrence == AfterDedupe => FirstOccurrencesKept

\* C15 amended: the same for every dataset that has at least one column; of
\* a dataset without columns every row is kept and duplicates_removed is 0.
C15_KeepsFirstWithColumns ==
    AfterDedupe =>
        IF NCols(given.input) > 0 THEN FirstOccurrencesKept
        ELSE /\ lastCall.df = given.input
             /\ lastCall.appended
                    = <<[operation |-> "remove_duplicates",
                         duplicates_removed |-> 0,
                         subset |-> given.args[1]]>>

\* rows [A, B, A'] with A and A' equal on the subset only: the first is kept
C15_Witness ==
    /\ AfterDedupe
    /\ given.args[1] = Some(<<"city">>)
    /\ given.input.rows = << <<10, 2>>, <<30, 7>>, <<30, 2>> >>
    /\ lastCall.df.rows = << <<10, 2>>, <<30, 7>> >>
    /\ lastCall.appended[1].duplicates_removed = 1

(***************************************************************************)
(* Properties of handle_missing_values                                     *)
(***************************************************************************)
\* the latest call was handle_missing_values(strategy) and it returned
AfterMissing(strategy) ==
    /\ lastCall.call = "handle_missing_values"
    /\ ~lastCall.raised
    /\ given.args[1] = strategy

\* C16: the row count after handle_missing_values(strategy='drop') and
\* after remove_duplicates is never greater than before, the column count
\* after handle_missing_values(strategy='smart') is never greater than
\* before, wherever in a sequence of operations the call is made.
C16_RowColumnMonotonicity ==
    /\ AfterMissing("drop") => NRows(lastCall.df) <= NRows(given.input)
    /\ AfterDedupe => NRows(lastCall.df) <= NRows(given.input)
    /\ AfterMissing("smart") => NCols(lastCall.df) <= NCols(given.input)

\* smart dropped a column, then remove_duplicates removed a row of the frame
\* it returned
C16_Witness ==
    /\ AfterDedupe
    /\ Len(Ledger) = 2
    /\ Ledger[1].operation = "handle_missing_values"
    /\ Ledger[1].strategy = "smart"
    /\ NCols(given.input) = 1
    /\ NRows(lastCall.df) < NRows(given.input)

\* C17: every column of the input whose missing fraction is strictly
\* greater than 0.5 is absent from the output of
\* handle_missing_values(strategy='smart'), and every column whose missing
\* fraction is at most 0.5 (exactly 0.5 included) is present in it.
C17_SmartThreshold ==
    AfterMissing("smart") =>
        LET inp == given.input
            out == lastCall.df
        IN \A j \in 1..NCols(inp) :
              IF 2 * NullCount(inp, j) > NRows(inp)
              THEN inp.names[j] \notin Range(out.names)
              ELSE inp.names[j] \in Range(out.names)

\* age exactly half missing is kept, city without any value is dropped
C17_Witness ==
    /\ AfterMissing("smart")
    /\ given.input.rows = << <<NA, NA>>, <<10, NA>> >>
    /\ lastCall.df.names = <<"age">>

\* position in df of the column labelled name
ColumnOf(df, name) == CHOOSE c \in 1..NCols(df) : df.names[c] = name

\* C18: under the smart strategy every kept column with missing fraction
\* 0 < p <= 0.5 has no missing value in the output: a missing cell of a
\* numeric column holds the median of the column's non-missing values, one
\* of a categorical column the column's mode, and the non-missing cells
\* keep their values.
C18_SmartImputes ==
    AfterMissing("smart") =>
        LET inp == given.input
            out == lastCall.df
        IN \A j \in 1..NCols(inp) :
              (NullCount(inp, j) > 0 /\ 2 * NullCount(inp, j) <= NRows(inp)) =>
                  /\ inp.names[j] \in Range(out.names)
                  /\ LET c == ColumnOf(out, inp.names[j])
                     IN \A i \in 1..NRows(inp) :
                           out.rows[i][c] =
                               IF inp.rows[i][j] # NA THEN inp.rows[i][j]
                               ELSE IF inp.kinds[j] = "num"
                               THEN Median(Present(inp, j))
                               ELSE Mode(Present(inp, j))[1]

\* C19: handle_missing_values(strategy='drop') removes exactly the rows with
\* at least one missing value: the output has no missing value, the input
\* rows without a missing value are kept in their order, and the logged
\* rows_dropped is input row count - output row count.
C19_DropRemovesIncompleteRows ==
    AfterMissing("drop") =>
        LET inp == given.input
            out == lastCall.df
        IN /\ MissingCells(out) = 0
           /\ out.rows = SelectSeq(inp.rows,
                             LAMBDA row : \A j \in 1..Len(row) : row[j] # NA)
           /\ out.names = inp.names
           /\ Len(lastCall.appended) = 1
           /\ lastCall.appended[1].rows_dropped = NRows(inp) - NRows(out)

\* of three rows the two with a missing value were dropped
C19_Witness ==
    /\ AfterMissing("drop")
    /\ given.input.rows = << <<NA, 2>>, <<30, 7>>, <<10, NA>> >>
    /\ lastCall.df.rows = << <<30, 7>> >>
    /\ lastCall.appended[1].rows_dropped = 2

\* the strategies that have a branch in handle_missing_values
RecognizedStrategies == {"drop", "simple", "knn", "smart"}

\* the latest call was handle_missing_values with a recognized strategy and
\* it returned
AfterRecognizedStrategy ==
    /\ lastCall.call = "handle_missing_values"
    /\ ~lastCall.raised
    /\ given.args[1] \in RecognizedStrategies

\* C20 as stated: a call of handle_missing_values with a strategy in
\* {drop, simple, knn, smart} that returns appends exactly one record, and
\* the record describes the strategy and the affected columns.
C20_OneRecordWithColumns ==
    AfterRecognizedStrategy =>
        /\ Len(lastCall.appended) = 1
        /\ lastCall.appended[1].strategy = given.args[1]
        /\ "columns" \in DOMAIN lastCall.appended[1]

\* C20 amended: such a call appends exactly one record, which holds the
\* operation name and the strategy (with rows_dropped for drop, and the two
\* imputer strategies for simple); no record lists the affected columns.
C20_OneRecordWithStrategy ==
    AfterRecognizedStrategy =>
        /\ Len(lastCall.appended) = 1
        /\ Ledger # <<>>
        /\ Ledger[Len(Ledger)] = lastCall.appended[1]
        /\ LET record == lastCall.appended[1]
               extra == CASE given.args[1] = "drop" -> {"rows_dropped"}
                          [] given.args[1] = "simple" ->
                                {"numeric_strategy", "categorical_strategy"}
                          [] OTHER -> {}
           IN /\ record.operation = "handle_missing_values"
              /\ record.strategy = given.args[1]
              /\ DOMAIN record = {"operation", "strategy"} \cup extra

\* a knn call on a frame with missing cells returned and logged its record
C20_Witness ==
    /\ AfterMissing("knn")
    /\ MissingCells(given.input) > 0
    /\ MissingCells(lastCall.df) = 0
    /\ lastCall.appended = <<[operation |-> "handle_missing_values",
                              strategy |-> "knn"]>>

\* the position of run_pipeline in its body, in the order of the code
StagePosition ==
    [p \in {"idle", "load", "inspect", "refine", "insight", "save", "finalize"} |->
        CASE p = "idle"     -> 0
          [] p = "load"     -> 1
          [] p = "inspect"  -> 2
          [] p = "refine"   -> 3
          [] p = "insight"  -> 4
          [] p = "save"     -> 5
          [] p = "finalize" -> 6]

\* C26: within one run_pipeline run each stage is attempted at most once
\* and yields at most one StageRecord: control only moves forward through
\* the stages or leaves the run, every step appends at most one record and
\* the records of the run name distinct stages; a record already in the
\* metrics is never modified or removed.
C26_StagesRecordedOnce ==
    [][/\ pc' # pc => pc' = "idle" \/ StagePosition[pc'] > StagePosition[pc]
       /\ Len(pipeline_metrics'.stages) <= Len(pipeline_metrics.stages) + 1
       /\ Len(pipeline_metrics'.stages) >= Len(pipeline_metrics.stages)
       /\ SubSeq(pipeline_metrics'.stages, 1, Len(pipeline_metrics.stages))
             = pipeline_metrics.stages
       /\ \A i, k \in 1..Len(ThisRun') :
             ThisRun'[i].stage = ThisRun'[k].stage => i = k]_vars

\* a second run that went through all five stages, its refiner stage
\* failed, with the records of the first run still in the metrics
C26_Witness ==
    /\ Terminated
    /\ runs = 2
    /\ runStart > 0
    /\ Len(ThisRun) = 5
    /\ \E i \in 1..Len(ThisRun) :
          ThisRun[i].stage = "refiner" /\ ThisRun[i].status = "failed"

\* C27: for every recognized strategy the number of missing cells of the
\* dataset handle_missing_values returns is at most that of its input.
C27_MissingNeverIncreases ==
    AfterRecognizedStrategy =>
        MissingCells(lastCall.df) <= MissingCells(given.input)

\* smart dropped a column that was more than half missing and still held a
\* value: fewer missing cells, though no cell was filled
C27_Witness ==
    /\ AfterMissing("smart")
    /\ NCols(lastCall.df) < NCols(given.input)
    /\ \E j \in 1..NCols(given.input) :
          /\ MissingOverHalf(given.input, j)
          /\ Present(given.input, j) # <<>>
    /\ 0 < MissingCells(lastCall.df)
    /\ MissingCells(lastCall.df) < MissingCells(given.input)

\* C28: the smart strategy leaves every column without a missing value as
\* it is and changes neither the number nor the order of the rows: every
\* cell that held a value in a column it keeps holds it in the same row.
C28_SmartKeepsCompleteColumnsAndRows ==
    AfterMissing("smart") =>
        /\ NRows(lastCall.df) = NRows(given.input)
        /\ \A j \in 1..NCols(given.input) :
              NullCount(given.input, j) = 0 =>
                  /\ given.input.names[j] \in Range(lastCall.df.names)
                  /\ Column(lastCall.df,
                            ColumnOf(lastCall.df, given.input.names[j]))
                        = Column(given.input, j)
        /\ \A c \in 1..NCols(lastCall.df) :
              LET j == ColumnOf(given.input, lastCall.df.names[c])
              IN \A i \in 1..NRows(given.input) :
                    given.input.rows[i][j] # NA
                        => lastCall.df.rows[i][c] = given.input.rows[i][j]

\* a frame of distinct rows with a complete column and an incomplete one
C28_Witness ==
    /\ AfterMissing("smart")
    /\ NRows(given.input) = MaxRows
    /\ \A i, k \in 1..NRows(given.input) :
          i # k => given.input.rows[i] # given.input.rows[k]
    /\ \E j \in 1..NCols(given.input) : NullCount(given.input, j) = 0
    /\ \E j \in 1..NCols(given.input) : NullCount(given.input, j) > 0
    /\ NCols(lastCall.df) = NCols(given.input)

\* C30: handle_missing_values called with a strategy it does not recognize
\* raises no error, returns a dataset equal to its input and appends
\* nothing to the ledger.
C30_UnknownStrategyIsNoOp ==
    (/\ lastCall.call = "handle_missing_values"
     /\ given.args[1] \notin RecognizedStrategies) =>
        /\ ~lastCall.raised
        /\ lastCall.df = given.input
        /\ lastCall.appended = <<>>

\* strategy mean on a frame with missing cells, after a logged call
C30_Witness ==
    /\ lastCall.call = "handle_missing_values"
    /\ given.args[1] = "mean"
    /\ MissingCells(given.input) > 0
    /\ lastCall.df = given.input
    /\ Len(Ledger) = 1

(***************************************************************************)
(* Properties of unify_categories                                          *)
(***************************************************************************)
\* the latest call was unify_categories on a column of the frame and it
\* returned
AfterUnify ==
    /\ lastCall.call = "unify_categories"
    /\ ~lastCall.raised
    /\ given.args[1] \in Range(given.input.names)

\* the column the latest unify_categories worked on, its distinct values in
\* first-seen order, the iterations that grouped values and the mapping
UnifiedCol == Column(given.input, ColumnOf(given.input, given.args[1]))
UnifiedValues == Unique(Present(given.input, ColumnOf(given.input, given.args[1])))
UnifyVisits == Visits(UnifiedCol, UnifiedValues, given.args[2], 1, {})
UnifyMapping ==
    ValueMapping(UnifiedCol, UnifiedValues, given.args[2], 1, EmptyMapping, {})

\* occurrences of a value in the original column
Occurrences(v) == Cardinality({i \in 1..Len(UnifiedCol) : UnifiedCol[i] = v})

\* the frame returned is the input with the mapping applied to the column
MappingApplied ==
    LET j == ColumnOf(given.input, given.args[1])
    IN /\ NRows(lastCall.df) = NRows(given.input)
       /\ \A i \in 1..NRows(given.input) : \A c \in 1..NCols(given.input) :
             lastCall.df.rows[i][c] =
                 IF c = j /\ given.input.rows[i][c] \in DOMAIN UnifyMapping
                 THEN UnifyMapping[given.input.rows[i][c]]
                 ELSE given.input.rows[i][c]

\* the iterations whose group holds the value
VisitsOf(x) == {k \in 1..Len(UnifyVisits) : x \in UnifyVisits[k].group}

\* C21: every raw value that is a key of the mapping unify_categories
\* applies is mapped to a canonical value that occurs in the original
\* column at least as often as every other member of the value's cluster
\* (the values mapped to the same canonical value, and the group that
\* resolved the value).
C21_UnificationSoundness ==
    AfterUnify =>
        /\ MappingApplied
        /\ \A x \in DOMAIN UnifyMapping :
              /\ \A y \in DOMAIN UnifyMapping :
                    UnifyMapping[y] = UnifyMapping[x] =>
                        Occurrences(UnifyMapping[x]) >= Occurrences(y)
              /\ LET last == CHOOSE k \in VisitsOf(x) :
                                 \A l \in VisitsOf(x) : l <= k
                 IN \A y \in UnifyVisits[last].group :
                       Occurrences(UnifyMapping[x]) >= Occurrences(y)

\* [abcd, abcde, abcde] at threshold 80: abcd was rewritten to the more
\* frequent abcde
C21_Witness ==
    /\ AfterUnify
    /\ given.args[2] = 80
    /\ given.input.rows = << <<4>>, <<5>>, <<5>> >>
    /\ lastCall.df.rows = << <<5>>, <<5>>, <<5>> >>

\* C22: once a value has been resolved as a member of an earlier anchor's
\* group, its mapping is never changed by a later anchor: the canonical
\* value of every key is the one chosen by the first group that held it.
C22_ResolvedValueKeepsMapping ==
    AfterUnify =>
        \A x \in DOMAIN UnifyMapping :
            LET first == CHOOSE k \in VisitsOf(x) :
                             \A l \in VisitsOf(x) : k <= l
            IN UnifyMapping[x] = UnifyVisits[first].canonical

\* the members of a group that occur most often
MostFrequent(group) ==
    {c \in group : \A d \in group : Occurrences(c) >= Occurrences(d)}

\* C23 as stated: when several members of an anchor's group share the
\* highest occurrence count, the canonical value is the tied member that
\* comes first in the enumeration order of the distinct values U.
C23_TieByFirstSeen ==
    AfterUnify =>
        \A k \in 1..Len(UnifyVisits) :
            LET visit == UnifyVisits[k]
            IN /\ visit.canonical \in MostFrequent(visit.group)
               /\ \A d \in MostFrequent(visit.group) :
                     IndexOf(UnifiedValues, visit.canonical)
                         <= IndexOf(UnifiedValues, d)

\* C23 amended: among the tied members the canonical value is the one
\* process.extract lists first: the member most similar to the anchor (the
\* anchor itself when it is tied), members equally similar in the order of
\* U; the values of the last group are rewritten to its canonical value.
C23_TieByMatchOrder ==
    AfterUnify =>
        /\ \A k \in 1..Len(UnifyVisits) :
              LET visit == UnifyVisits[k]
              IN /\ visit.canonical \in MostFrequent(visit.group)
                 /\ \A d \in MostFrequent(visit.group) \ {visit.canonical} :
                       /\ ~ScoreGreater(d, visit.canonical, visit.anchor)
                       /\ ScoreGreater(visit.canonical, d, visit.anchor)
                          \/ IndexOf(UnifiedValues, visit.canonical)
                                < IndexOf(UnifiedValues, d)
                 /\ visit.anchor \in MostFrequent(visit.group)
                       => visit.canonical = visit.anchor
        /\ UnifyVisits # <<>> =>
              LET visit == UnifyVisits[Len(UnifyVisits)]
                  j == ColumnOf(given.input, given.args[1])
              IN \A i \in 1..NRows(given.input) :
                    given.input.rows[i][j] \in visit.group
                        => lastCall.df.rows[i][j] = visit.canonical

\* [abcd, bcde, bcde, abcde, abcde] at threshold 30: bcde and abcde are
\* tied, bcde was seen first, abcde is more similar to the anchor abcd
C23_Witness ==
    /\ AfterUnify
    /\ given.args[2] = 30
    /\ given.input.rows = << <<4>>, <<6>>, <<6>>, <<5>>, <<5>> >>
    /\ lastCall.df.rows = << <<5>>, <<5>>, <<5>>, <<5>>, <<5>> >>

\* C24: the unified_count recorded in the ledger is the number of raw
\* values rewritten to a different canonical value.
C24_UnifiedCountIsRewritten ==
    (AfterUnify /\ lastCall.appended # <<>>) =>
        lastCall.appended[1].unified_count =
            Cardinality({x \in DOMAIN UnifyMapping : UnifyMapping[x] # x})

\* C25: unify_categories called with a column that is absent from the
\* dataset does not raise: it returns the dataset unchanged and appends
\* nothing to the ledger.
C25_AbsentColumnSkipped ==
    (/\ lastCall.call = "unify_categories"
     /\ given.args[1] \notin Range(given.input.names)) =>
        /\ ~lastCall.raised
        /\ lastCall.df = given.input
        /\ lastCall.appended = <<>>

\* after a logged call, unify_categories on the absent column region left
\* the frame and the one ledger entry as they were
C25_Witness ==
    /\ lastCall.call = "unify_categories"
    /\ given.args[1] = "region"
    /\ NRows(given.input) > 0
    /\ lastCall.df = given.input
    /\ Len(Ledger) = 1

\* C29: the value mapping is idempotent: the canonical value of every key
\* is mapped to itself, so no value of the rewritten column is a key the
\* mapping would rewrite again.
C29_MappingIdempotent ==
    AfterUnify =>
        /\ \A x \in DOMAIN UnifyMapping :
              UnifyMapping[x] \in DOMAIN UnifyMapping
                  => UnifyMapping[UnifyMapping[x]] = UnifyMapping[x]
        /\ LET j == ColumnOf(lastCall.df, given.args[1])
           IN \A i \in 1..NRows(lastCall.df) :
                 lastCall.df.rows[i][j] \in DOMAIN UnifyMapping
                     => UnifyMapping[lastCall.df.rows[i][j]]
                            = lastCall.df.rows[i][j]

====
